---------------------------- MODULE Spec2Model ----------------------------
(***************************************************************************)
(* CityPulse: the Urban Stress Index scoring function of the dashboard     *)
(* (FE mockData), the backend's ML-service client with its local fallback  *)
(* generators (BE mlClient), and the dashboard's state (FE App).           *)
(*                                                                         *)
(* Number representation.  A JavaScript number is a sequence: <<>> is NaN  *)
(* (what arithmetic on a missing field, undefined, yields) and <<v>> is    *)
(* the finite value v.  Noise (dB) and temperature (C) are carried in      *)
(* tenths, as generateMockNodeData rounds them; air quality, crowd and     *)
(* the stress index are whole numbers.  Arithmetic is exact (rational),    *)
(* not IEEE double.                                                        *)
(***************************************************************************)
EXTENDS Integers, Sequences, FiniteSets, TLC

VARIABLES
    \* scoring a reading (FE calculateStressIndex)
    scoreIn,            \* the sensors object handed to calculateStressIndex
    scoreOut,           \* the outcome of the call, or NoOutcome before it
    \* one request to the ML client (BE detectAnomaly / getForecast)
    mlPc,               \* "idle" | "awaiting" | "settled" | "done"
    mlReq,              \* the call and its arguments
    mlResp,             \* how the fetch settled
    mlFetches,          \* fetch calls made for the request
    mlResult,           \* the value the async function resolved with
    \* one call of the local forecast generator (BE fallbackForecast)
    fcIn,               \* nodeId, horizon, the clock and the Math.random() draws
    fcOut,              \* what the call returned, or Pending before it
    \* one stress index shown by the dashboard (FE tier functions)
    tierIn,             \* the stressIndex
    tierOut,            \* label, colours, eventType and anomaly flag derived from it
    \* the dashboard (FE App)
    loaded,             \* the initial data load effect has run
    nodeDataMap,        \* nodeId -> NodeData
    selectedNode,       \* NodeData or Null
    activityLog,        \* sequence of ActivityLogEntry, head first
    historicalData,     \* sequence of HistoricalDataPoint
    anomalyAlert,       \* NodeData or Null
    previousAnomalies,  \* previousAnomaliesRef.current
    timers,             \* pending setTimeout(() => setAnomalyAlert(null)) callbacks
    now,                \* Date.now(): the clock, one unit per event
    \* history of the dashboard run (not program state)
    created,            \* every log entry generated so far, newest first
    appended,           \* every point appended since historicalData was last reset
    appendedNodes,      \* the node each of those points was generated for
    lastEvent,          \* the handler that ran last, with what it drew and raised
    varied              \* long run: events other than the steady tick so far

scoreVars == <<scoreIn, scoreOut>>
mlVars    == <<mlPc, mlReq, mlResp, mlFetches, mlResult>>
fcVars    == <<fcIn, fcOut>>
tierVars  == <<tierIn, tierOut>>
dashVars  == <<loaded, nodeDataMap, selectedNode, activityLog, historicalData,
               anomalyAlert, previousAnomalies, timers, now,
               created, appended, appendedNodes, lastEvent, varied>>
vars      == <<scoreIn, scoreOut, mlPc, mlReq, mlResp, mlFetches, mlResult,
               fcIn, fcOut, tierIn, tierOut,
               loaded, nodeDataMap, selectedNode, activityLog, historicalData,
               anomalyAlert, previousAnomalies, timers, now,
               created, appended, appendedNodes, lastEvent, varied>>

---------------------------------------------------------------------------
(* Bounds of the model *)

MaxGrid == 4            \* sensor grid: 0..MaxGrid strides per scored field
DetectSpread == 2       \* backend readings: threshold +- DetectSpread strides
MaxHorizonSteps == 6    \* forecast horizons up to 15 * MaxHorizonSteps minutes
NumNodes == 2           \* the dashboard polls the first NumNodes sensor nodes
MaxEvents == 2          \* dashboard events (ticks, keys, clicks, timeouts) after the load
MaxLongEvents == 26     \* events of the long dashboard run after the load
MaxVaried == 1          \* events of the long run other than the steady tick
MaxAlertEvents == 3     \* events of the alert banner run after the load

---------------------------------------------------------------------------
(* JavaScript values *)

NaN == <<>>
Num(v) == <<v>>
IsNaN(x) == x = NaN
Val(x) == x[1]
Null == [null |-> TRUE]

\* Math.min / Math.max of two numbers: NaN if either is NaN
MathMin(a, b) == IF IsNaN(a) \/ IsNaN(b) THEN NaN
                 ELSE IF Val(a) <= Val(b) THEN a ELSE b
MathMax(a, b) == IF IsNaN(a) \/ IsNaN(b) THEN NaN
                 ELSE IF Val(a) >= Val(b) THEN a ELSE b

\* Math.round(n / d) for d > 0: the nearest integer, a tie going up
MathRound(n, d) == (2 * n + d) \div (2 * d)

\* a > b and a <= b on JavaScript numbers: false when either is NaN
Gt(a, b) == ~IsNaN(a) /\ Val(a) > b
Le(a, b) == ~IsNaN(a) /\ Val(a) <= b
Ge(a, b) == ~IsNaN(a) /\ Val(a) >= b

SeqRange(s) == {s[i] : i \in 1..Len(s)}

---------------------------------------------------------------------------
(* FE: the scoring function *)

\* A sub-score Math.min(x, 100), held in 1/30ths: x30 is 30 times the
\* linear term, NaN when its sensor is NaN.
subScore(x30) == MathMin(x30, Num(3000))

Lin(x, offset, mul) == IF IsNaN(x) THEN NaN ELSE Num(mul * (Val(x) - offset))

\* nScore = min((noise - 40) / 60 * 100, 100), noise in tenths: (n - 400) / 6
nScore(sensors) == subScore(Lin(sensors.noise, 400, 5))
\* tScore = min((temp - 15) / 25 * 100, 100), temp in tenths: (t - 150) * 2 / 5
tScore(sensors) == subScore(Lin(sensors.temp, 150, 12))
\* aScore = min(airQuality / 150 * 100, 100): a * 2 / 3
aScore(sensors) == subScore(Lin(sensors.airQuality, 0, 20))
\* dScore = min(crowd / 30 * 100, 100): c * 10 / 3
dScore(sensors) == subScore(Lin(sensors.crowd, 0, 100))

\* weights { noise: 0.4, temp: 0.25, air: 0.2, crowd: 0.15 }, in hundredths;
\* the sum is in 1/3000ths
weightedSum(sensors) ==
    LET n == nScore(sensors)
        t == tScore(sensors)
        a == aScore(sensors)
        d == dScore(sensors)
    IN  IF IsNaN(n) \/ IsNaN(t) \/ IsNaN(a) \/ IsNaN(d) THEN NaN
        ELSE Num(40 * Val(n) + 25 * Val(t) + 20 * Val(a) + 15 * Val(d))

calculateStressIndex_NoMax(sensors) ==
    LET s == weightedSum(sensors)
    IN  IF IsNaN(s) THEN NaN ELSE Num(MathRound(Val(s), 3000))

\* Math.max(0, Math.round(weighted sum)); NaN in, NaN out
calculateStressIndex(sensors) ==
    LET s == weightedSum(sensors)
    IN  IF IsNaN(s) THEN NaN
        ELSE MathMax(Num(0), Num(MathRound(Val(s), 3000)))

\* How a call of calculateStressIndex ends: it has no throw statement and
\* reads only properties of an object, so it always returns.
NoOutcome == [kind |-> "none"]
scoreCall(sensors) == [kind |-> "return", value |-> calculateStressIndex(sensors)]

---------------------------------------------------------------------------
(* BE: the local anomaly classifier *)

thresholdSignals_CrowdGated(reading) ==
    LET others == (IF Gt(reading.noise, 850) THEN <<"noise">> ELSE <<>>)
                  \o (IF Gt(reading.temperature, 350) THEN <<"heat">> ELSE <<>>)
                  \o (IF Gt(reading.air_quality, 120) THEN <<"air_quality">> ELSE <<>>)
    IN  IF Len(others) = 0 /\ Gt(reading.crowd_density, 25)
        THEN <<"crowd">> ELSE others

\* the four threshold tests, in the order the code pushes the tags
thresholdSignals(reading) ==
    (IF Gt(reading.noise, 850) THEN <<"noise">> ELSE <<>>)
    \o (IF Gt(reading.temperature, 350) THEN <<"heat">> ELSE <<>>)
    \o (IF Gt(reading.air_quality, 120) THEN <<"air_quality">> ELSE <<>>)
    \o (IF Gt(reading.crowd_density, 25) THEN <<"crowd">> ELSE <<>>)

includes(signals, tag) == tag \in SeqRange(signals)

NoiseText == "Noise level ${reading.noise} dB exceeds Mohali evening baseline"
HeatText == "Temperature ${reading.temperature}C indicates heat stress"
AqiText == "AQI ${reading.air_quality} above safe threshold"
CompositeText == "Multi-sensor correlation indicates urban stress anomaly"

\* a template literal with the number it interpolates; '' is [text |-> ""]
Template(text, value) == [text |-> text, value |-> value]
EmptyString == [text |-> ""]

earlyReturn_Below80(reading, signals) ==
    Len(signals) = 0 /\ ~IsNaN(reading.stress_index) /\ Val(reading.stress_index) < 80

\* signals.length === 0 && reading.stress_index <= 80
earlyReturn(reading, signals) ==
    Len(signals) = 0 /\ Le(reading.stress_index, 80)

explanationBranch_HeatFirst(reading, signals) ==
    IF includes(signals, "heat") THEN "heat"
    ELSE IF includes(signals, "noise") THEN "noise"
    ELSE IF includes(signals, "air_quality") THEN "air_quality"
    ELSE IF Gt(reading.stress_index, 80) THEN "composite"
    ELSE "none"

\* the explanation chain: which branch is taken
explanationBranch(reading, signals) ==
    IF includes(signals, "noise") THEN "noise"
    ELSE IF includes(signals, "heat") THEN "heat"
    ELSE IF includes(signals, "air_quality") THEN "air_quality"
    ELSE IF Gt(reading.stress_index, 80) THEN "composite"
    ELSE "none"

isAnomalyFlag_StressOnly(reading, signals) == Gt(reading.stress_index, 80)

\* reading.stress_index > 80 || signals.length > 0
isAnomalyFlag(reading, signals) ==
    Gt(reading.stress_index, 80) \/ Len(signals) > 0

fallbackAnomalyDetection(reading) ==
    LET signals == thresholdSignals(reading)
        branch == explanationBranch(reading, signals)
        explanation ==
            CASE branch = "noise" -> Template(NoiseText, reading.noise)
              [] branch = "heat" -> Template(HeatText, reading.temperature)
              [] branch = "air_quality" -> Template(AqiText, reading.air_quality)
              [] branch = "composite" -> [text |-> CompositeText]
              [] OTHER -> EmptyString
        pushed == IF branch = "composite" THEN Append(signals, "composite")
                  ELSE signals
    IN  IF earlyReturn(reading, signals)
        THEN [is_anomaly |-> FALSE]
        ELSE [is_anomaly |-> isAnomalyFlag(reading, pushed),
              \* Math.min(stress_index / 100, 0.99), in hundredths
              anomaly_score |-> MathMin(reading.stress_index, Num(99)),
              signals |-> pushed,
              explanation |-> explanation]

---------------------------------------------------------------------------
(* BE: the local forecast generator *)

KnownNodes == <<"node_1", "node_2", "node_3", "node_4", "node_5">>

getNodeName(nodeId) ==
    CASE nodeId = "node_1" -> "Sector 17 Plaza"
      [] nodeId = "node_2" -> "Phase 8 Industrial"
      [] nodeId = "node_3" -> "IT City"
      [] nodeId = "node_4" -> "Sector 70 Residential"
      [] nodeId = "node_5" -> "Aerocity"
      [] OTHER -> nodeId

\* futureTime.getHours() for i minutes after t0 (t0: minutes since midnight)
hourAt(t0, i) == ((t0 + i) \div 60) % 24

\* the diurnal factor, in tenths
baseFactor(hour) ==
    IF hour >= 17 /\ hour <= 19 THEN 14
    ELSE IF hour >= 8 /\ hour <= 20 THEN 12 ELSE 8

nextStress_WidePert(prev100, hour, pert1000) ==
    MathRound(7 * prev100 + 45 * baseFactor(hour) * 30 + 10 * pert1000, 1000)

\* Math.round(prevStress * 0.7 + (45 * baseFactor) * 0.3 + (Math.random() - 0.5) * 5)
\* with prevStress in hundredths and the perturbation in thousandths
nextStress(prev100, hour, pert1000) ==
    MathRound(7 * prev100 + 45 * baseFactor(hour) * 30 + pert1000, 1000)

clampStress(stress) == IF stress > 85 THEN 85 ELSE IF stress < 20 THEN 20 ELSE stress

confidenceAt_NoFloor(i) == 900 - 3 * i

\* confidence Math.max(0.65, 0.9 - i * 0.003), in thousandths
confidenceAt(i) == IF 900 - 3 * i >= 650 THEN 900 - 3 * i ELSE 650

forecastPoint(t0, i, stress, temp) ==
    [timestamp |-> t0 + i,
     minutes_ahead |-> i,
     predicted_stress |-> clampStress(stress),
     predicted_noise |-> MathRound(550 + 3 * stress, 10),
     predicted_temp |-> temp,
     predicted_aqi |-> MathRound(600 + 4 * stress, 10),
     predicted_crowd |-> MathRound(500 + 15 * stress, 100),
     confidence |-> confidenceAt(i)]

RECURSIVE forecastLoop_Exclusive(_, _, _, _, _)
forecastLoop_Exclusive(i, horizon, prev100, t0, rnd) ==
    IF i >= horizon /\ i > 0 THEN <<>>
    ELSE LET k == i \div 15
             stress == MathRound(7 * prev100 + 45 * baseFactor(hourAt(t0, i)) * 30
                                 + rnd.pert[k], 1000)
         IN  <<[timestamp |-> t0 + i, minutes_ahead |-> i,
                predicted_stress |-> stress, predicted_noise |-> 0,
                predicted_temp |-> rnd.temp[k], predicted_aqi |-> 0,
                predicted_crowd |-> 0, confidence |-> 900]>>
             \o forecastLoop_Exclusive(i + 15, horizon, 100 * stress, t0, rnd)

\* The for loop of one node.  rnd holds the Math.random() draws of the
\* series: rnd.seed is 45 + random * 20 in hundredths, rnd.pert[k] the
\* perturbation of step k in thousandths, rnd.temp[k] its predicted_temp.
\* prevStress carries the rounded, unclamped stress.
RECURSIVE forecastLoop(_, _, _, _, _)
forecastLoop(i, horizon, prev100, t0, rnd) ==
    IF i > horizon THEN <<>>
    ELSE LET k == i \div 15
             stress == nextStress(prev100, hourAt(t0, i), rnd.pert[k])
         IN  <<forecastPoint(t0, i, stress, rnd.temp[k])>>
             \o forecastLoop(i + 15, horizon, 100 * stress, t0, rnd)

trendOf_AtLeast8(forecast) ==
    LET first == forecast[1].predicted_stress
        last == forecast[Len(forecast)].predicted_stress
    IN  IF last - first >= 8 THEN "increasing"
        ELSE IF first - last >= 8 THEN "decreasing" ELSE "stable"

trendOf(forecast) ==
    LET first == forecast[1].predicted_stress
        last == forecast[Len(forecast)].predicted_stress
    IN  IF last - first > 8 THEN "increasing"
        ELSE IF first - last > 8 THEN "decreasing" ELSE "stable"

nodeForecast(nid, horizon, t0, rnd) ==
    LET forecast == forecastLoop(0, horizon, rnd.seed, t0, rnd)
    IN  [node_id |-> nid, node_name |-> getNodeName(nid),
         forecast |-> forecast, trend |-> trendOf(forecast)]

\* nodeId is "" when the caller gave none; rnds[n] are the draws of the
\* n-th series.  One object for a nodeId, the array of five otherwise.
fallbackForecast(nodeId, horizon, t0, rnds) ==
    LET nodes == IF nodeId # "" THEN <<nodeId>> ELSE KnownNodes
        forecasts == [n \in 1..Len(nodes) |->
                         nodeForecast(nodes[n], horizon, t0, rnds[n])]
    IN  IF nodeId # "" THEN forecasts[1] ELSE [array |-> forecasts]

---------------------------------------------------------------------------
(* Idle values: each specification leaves the other parts where they start *)

NoRequest == [op |-> "none"]
Pending == [pending |-> TRUE]

ScoreIdle == scoreIn = [none |-> TRUE] /\ scoreOut = NoOutcome
MLIdle == /\ mlPc = "idle" /\ mlReq = NoRequest /\ mlResp = "none"
          /\ mlFetches = 0 /\ mlResult = Pending
DashIdle == /\ loaded = FALSE /\ nodeDataMap = <<>> /\ selectedNode = Null
            /\ activityLog = <<>> /\ historicalData = <<>>
            /\ anomalyAlert = Null /\ previousAnomalies = {}
            /\ timers = <<>> /\ now = 0
            /\ created = <<>> /\ appended = <<>> /\ appendedNodes = <<>>
            /\ lastEvent = [kind |-> "none", readings |-> <<>>] /\ varied = 0
FcIdle == fcIn = [none |-> TRUE] /\ fcOut = Pending
TierIdle == tierIn = NaN /\ tierOut = Pending

---------------------------------------------------------------------------
(* Scoring a reading *)

\* sensor values on a grid from 0 past the point where each sub-score
\* saturates (noise 100 dB, temp 40 C, air 150, crowd 30), or missing
GridValues(stride) == {Num(stride * k) : k \in 0..MaxGrid} \cup {NaN}

SensorInputs ==
    [noise : GridValues(300), temp : GridValues(125),
     airQuality : GridValues(50), crowd : GridValues(10)]

Malformed(sensors) ==
    \E f \in {"noise", "temp", "airQuality", "crowd"} : IsNaN(sensors[f])

InitScore == /\ scoreIn \in SensorInputs /\ scoreOut = NoOutcome
             /\ MLIdle /\ FcIdle /\ TierIdle /\ DashIdle

Score == /\ scoreOut = NoOutcome
         /\ scoreOut' = scoreCall(scoreIn)
         /\ UNCHANGED <<scoreIn, mlVars, fcVars, tierVars, dashVars>>

NextScore == Score

SpecScore == InitScore /\ [][NextScore]_vars

---------------------------------------------------------------------------
(* One request to the ML client *)

Around(center, stride) ==
    {Num(center + stride * d) : d \in (0 - DetectSpread)..DetectSpread}

DetectReadings ==
    [noise : Around(850, 50), temperature : Around(350, 75),
     air_quality : Around(120, 35), crowd_density : Around(25, 10),
     stress_index : Around(80, 5) \cup {NaN}]

ForecastNodeIds == {"", "node_1", "node_9"}
Horizons == {15 * k + r : k \in 0..MaxHorizonSteps, r \in {0, 7}}
StartTimes == {7 * 60 + 50, 16 * 60 + 40, 23 * 60 + 45}

\* the Math.random() draws of one series, the same at every step
ConstDraws(seed, pert, temp) ==
    [seed |-> seed,
     pert |-> [k \in 0..(MaxHorizonSteps + 2) |-> pert],
     temp |-> [k \in 0..(MaxHorizonSteps + 2) |-> temp]]

ClientDraws == {ConstDraws(4500, -2500, 25), ConstDraws(6499, 2499, 30)}

\* how the fetch can settle: a response with ok and a JSON body, a response
\* with ok whose body does not parse, a response that is not ok, a rejection
FetchOutcomes == {"ok", "ok_bad_json", "not_ok", "rejected"}

RemoteBody(req) == [remote |-> req.op]

InitML == /\ MLIdle /\ ScoreIdle /\ FcIdle /\ TierIdle /\ DashIdle

\* detectAnomaly up to its await fetch(...)
DetectAnomalyCall ==
    /\ mlPc = "idle"
    /\ \E reading \in DetectReadings :
          mlReq' = [op |-> "detectAnomaly", reading |-> reading]
    /\ mlPc' = "awaiting"
    /\ mlResp' = "none"
    /\ mlFetches' = 1
    /\ mlResult' = Pending
    /\ UNCHANGED <<scoreVars, fcVars, tierVars, dashVars>>

\* getForecast up to its await fetch(url)
GetForecastCall ==
    /\ mlPc = "idle"
    /\ \E nodeId \in ForecastNodeIds, horizon \in Horizons :
          mlReq' = [op |-> "getForecast", nodeId |-> nodeId, horizon |-> horizon]
    /\ mlPc' = "awaiting"
    /\ mlResp' = "none"
    /\ mlFetches' = 1
    /\ mlResult' = Pending
    /\ UNCHANGED <<scoreVars, fcVars, tierVars, dashVars>>

\* the network: the pending fetch settles
FetchSettles ==
    /\ mlPc = "awaiting"
    /\ \E o \in FetchOutcomes : mlResp' = o
    /\ mlPc' = "settled"
    /\ UNCHANGED <<mlReq, mlFetches, mlResult, scoreVars, fcVars, tierVars, dashVars>>

detectAnomalyResult(req, resp) ==
    CASE resp = "not_ok" -> Null
      [] resp = "ok" -> RemoteBody(req)
      [] OTHER -> fallbackAnomalyDetection(req.reading)

\* detectAnomaly after the await
DetectAnomalyResume ==
    /\ mlPc = "settled"
    /\ mlReq.op = "detectAnomaly"
    /\ mlResult' = detectAnomalyResult(mlReq, mlResp)
    /\ mlPc' = "done"
    /\ UNCHANGED <<mlReq, mlResp, mlFetches, scoreVars, fcVars, tierVars, dashVars>>

ForecastError == [error |-> "Forecast unavailable"]

getForecastResult(req, resp, t0, rnds) ==
    CASE resp = "not_ok" -> ForecastError
      [] resp = "ok" -> RemoteBody(req)
      [] OTHER -> fallbackForecast(req.nodeId, req.horizon, t0, rnds)

\* getForecast after the await
GetForecastResume ==
    /\ mlPc = "settled"
    /\ mlReq.op = "getForecast"
    /\ \E t0 \in StartTimes, rnds \in [1..Len(KnownNodes) -> ClientDraws] :
          mlResult' = getForecastResult(mlReq, mlResp, t0, rnds)
    /\ mlPc' = "done"
    /\ UNCHANGED <<mlReq, mlResp, mlFetches, scoreVars, fcVars, tierVars, dashVars>>

\* the caller takes the result
RequestReturns ==
    /\ mlPc = "done"
    /\ mlPc' = "idle" /\ mlReq' = NoRequest /\ mlResp' = "none"
    /\ mlFetches' = 0 /\ mlResult' = Pending
    /\ UNCHANGED <<scoreVars, fcVars, tierVars, dashVars>>

NextML == \/ DetectAnomalyCall \/ GetForecastCall \/ FetchSettles
          \/ DetectAnomalyResume \/ GetForecastResume \/ RequestReturns

SpecML == InitML /\ [][NextML]_vars

\* The event loop runs the continuation of an await once its promise has
\* settled; nothing obliges the network to settle the fetch.
FairSpecML == SpecML /\ WF_vars(DetectAnomalyResume) /\ WF_vars(GetForecastResume)

---------------------------------------------------------------------------
(* One call of the local forecast generator *)

SeedDraws == {4500, 5500, 6499}         \* 45 + Math.random() * 20, hundredths
PertDraws == {-2500, 2499}              \* (Math.random() - 0.5) * 5, thousandths
TempDraw(k) == 25 + ((3 * k) % 6)       \* Math.round(25 + Math.random() * 5)

\* the draws of one series of horizon minutes, step by step
StepDraws(horizon) ==
    {[seed |-> seed, pert |-> pert,
      temp |-> [k \in 0..(horizon \div 15) |-> TempDraw(k)]] :
        seed \in SeedDraws, pert \in [0..(horizon \div 15) -> PertDraws]}

ForecastInputs ==
    UNION {
        {[nodeId |-> nodeId, horizon |-> horizon, t0 |-> t0, rnds |-> <<rnd>>] :
            nodeId \in ForecastNodeIds \ {""}, t0 \in StartTimes,
            rnd \in StepDraws(horizon)}
        \cup
        {[nodeId |-> "", horizon |-> horizon, t0 |-> t0, rnds |-> rnds] :
            t0 \in StartTimes, rnds \in [1..Len(KnownNodes) -> ClientDraws]}
        : horizon \in Horizons}

InitForecast == /\ fcIn \in ForecastInputs /\ fcOut = Pending
                /\ ScoreIdle /\ MLIdle /\ TierIdle /\ DashIdle

RunForecast ==
    /\ fcOut = Pending
    /\ fcOut' = fallbackForecast(fcIn.nodeId, fcIn.horizon, fcIn.t0, fcIn.rnds)
    /\ UNCHANGED <<fcIn, scoreVars, mlVars, tierVars, dashVars>>

NextForecast == RunForecast

SpecForecast == InitForecast /\ [][NextForecast]_vars

---------------------------------------------------------------------------
(* FE: the mock data generators *)

sensorNodes == <<"CP-MOH-01", "CP-MOH-02", "CP-MOH-03", "CP-MOH-04", "CP-MOH-05">>

\* the nodes the model polls: the first NumNodes of sensorNodes
PolledCount == IF NumNodes < Len(sensorNodes) THEN NumNodes ELSE Len(sensorNodes)
PolledNodes == {sensorNodes[i] : i \in 1..PolledCount}

Sensors(noise, temp, airQuality, crowd) ==
    [noise |-> Num(noise), temp |-> Num(temp),
     airQuality |-> Num(airQuality), crowd |-> Num(crowd)]

\* Draws of generateMockNodeData's four Math.random() calls: noise in
\* 40.0..95.0, temp in 18.0..35.0, airQuality in 30..130, crowd in 0..25.
\* Their scores are 10 and 87.
MockSensors == {Sensors(450, 200, 40, 2), Sensors(950, 350, 130, 25)}

\* stressIndex > 80
isAnomalyOf(stressIndex) == Gt(stressIndex, 80)

\* display-only fields (coordinates, aiExplanation) are left out
generateMockNodeData(nodeId, sensors, timestamp) ==
    LET stressIndex == calculateStressIndex(sensors)
    IN  [nodeId |-> nodeId, sensors |-> sensors, stressIndex |-> stressIndex,
         isAnomaly |-> isAnomalyOf(stressIndex), timestamp |-> timestamp]

eventTypeOf(stressIndex) ==
    IF Gt(stressIndex, 80) THEN "Critical"
    ELSE IF Gt(stressIndex, 55) THEN "Elevated" ELSE "Normal"

\* NodeIntelligence: the colour and the label of the stress gauge
getStressColor(stress) ==
    IF Ge(stress, 75) THEN "#FF3B3B"
    ELSE IF Ge(stress, 50) THEN "#FFB800" ELSE "#00F5FF"

getStressLabel(stress) ==
    IF Ge(stress, 75) THEN "CRITICAL ANOMALY"
    ELSE IF Ge(stress, 50) THEN "ELEVATED STRESS" ELSE "NOMINAL PULSE"

\* App: the colour of the marker on the fallback map
getNodeColor(node) ==
    IF Gt(node.stressIndex, 80) THEN "#FF3B3B"
    ELSE IF Gt(node.stressIndex, 55) THEN "#FFB800" ELSE "#00F5FF"

generateActivityLog(nodeData) ==
    [id |-> <<nodeData.nodeId, nodeData.timestamp>>,
     timestamp |-> nodeData.timestamp,
     nodeId |-> nodeData.nodeId,
     eventType |-> eventTypeOf(nodeData.stressIndex),
     value |-> nodeData.stressIndex]

HistoryCap == 20
ActivityCap == 50

\* s.slice(-n) and s.slice(0, n)
Last(s, n) == IF Len(s) <= n THEN s ELSE SubSeq(s, Len(s) - n + 1, Len(s))
First_KeepTail(s, n) == Last(s, n)
First(s, n) == IF Len(s) <= n THEN s ELSE SubSeq(s, 1, n)
Reverse(s) == [i \in 1..Len(s) |-> s[Len(s) + 1 - i]]

\* the HistoricalDataPoint of a reading
historyPoint(currentData) ==
    [timestamp |-> currentData.timestamp,
     stressIndex |-> currentData.stressIndex,
     noise |-> currentData.sensors.noise,
     temp |-> currentData.sensors.temp,
     airQuality |-> currentData.sensors.airQuality,
     crowd |-> currentData.sensors.crowd]

generateHistoricalData_KeepOldest(currentData, existingHistory) ==
    First(Append(existingHistory, historyPoint(currentData)), HistoryCap)

generateHistoricalData(currentData, existingHistory) ==
    LET newPoint == historyPoint(currentData)
    IN  Last(Append(existingHistory, newPoint), HistoryCap)

---------------------------------------------------------------------------
(* FE: the dashboard *)

CrisisStress == 94

\* the crisis reading written over the selected node
crisisDataOf(node, timestamp) ==
    [nodeId |-> node.nodeId, sensors |-> Sensors(925, 378, 165, 28),
     stressIndex |-> Num(CrisisStress), isAnomaly |-> TRUE,
     timestamp |-> timestamp]

InitDash == /\ DashIdle /\ ScoreIdle /\ MLIdle /\ FcIdle /\ TierIdle

\* effect 2, on mount: one reading per node, the log newest first, the
\* first node selected; pool is where the readings are drawn from
LoadWith(pool) ==
    /\ ~loaded
    /\ \E draw \in [PolledNodes -> pool] :
          LET initialData == [n \in PolledNodes |->
                                 generateMockNodeData(n, draw[n], now)]
              initialLog == [i \in 1..PolledCount |->
                                 generateActivityLog(initialData[sensorNodes[i]])]
              firstNode == initialData[sensorNodes[1]]
          IN  /\ nodeDataMap' = initialData
              /\ activityLog' = Reverse(initialLog)
              /\ selectedNode' = firstNode
              /\ historicalData' = generateHistoricalData(firstNode, <<>>)
              /\ created' = Reverse(initialLog)
              /\ appended' = <<historyPoint(firstNode)>>
              /\ appendedNodes' = <<firstNode.nodeId>>
              /\ lastEvent' = [kind |-> "load",
                               readings |-> [i \in 1..PolledCount |->
                                                initialData[sensorNodes[i]]]]
    /\ loaded' = TRUE
    /\ now' = now + 1
    /\ UNCHANGED <<anomalyAlert, previousAnomalies, timers, scoreVars, mlVars,
                   fcVars, tierVars>>

\* a pass that never deletes from the already-alerted set
pollUpdate_NeverForgets(st, sel, nodeId, sensors, timestamp) ==
    LET newData == generateMockNodeData(nodeId, sensors, timestamp)
        alerting == newData.isAnomaly /\ nodeId \notin st.previous
        isSelected == sel # Null /\ sel.nodeId = nodeId
    IN  [map |-> [st.map EXCEPT ![nodeId] = newData],
         entries |-> Append(st.entries, generateActivityLog(newData)),
         alert |-> IF alerting THEN newData ELSE st.alert,
         timers |-> IF alerting THEN Append(st.timers, timestamp) ELSE st.timers,
         previous |-> IF alerting THEN st.previous \cup {nodeId} ELSE st.previous,
         selected |-> IF isSelected THEN newData ELSE st.selected,
         history |-> IF isSelected THEN generateHistoricalData(newData, st.history)
                     ELSE st.history,
         appended |-> IF isSelected THEN Append(st.appended, historyPoint(newData))
                      ELSE st.appended,
         appendedNodes |-> IF isSelected THEN Append(st.appendedNodes, nodeId)
                           ELSE st.appendedNodes,
         readings |-> Append(st.readings, newData),
         raised |-> Append(st.raised, alerting)]

\* a pass that appends the point of every regenerated node to the history
pollUpdate_AppendsAll(st, sel, nodeId, sensors, timestamp) ==
    LET newData == generateMockNodeData(nodeId, sensors, timestamp)
        alerting == newData.isAnomaly /\ nodeId \notin st.previous
        previous1 == IF alerting THEN st.previous \cup {nodeId} ELSE st.previous
        isSelected == sel # Null /\ sel.nodeId = nodeId
    IN  [map |-> [st.map EXCEPT ![nodeId] = newData],
         entries |-> Append(st.entries, generateActivityLog(newData)),
         alert |-> IF alerting THEN newData ELSE st.alert,
         timers |-> IF alerting THEN Append(st.timers, timestamp) ELSE st.timers,
         previous |-> IF ~newData.isAnomaly THEN previous1 \ {nodeId} ELSE previous1,
         selected |-> IF isSelected THEN newData ELSE st.selected,
         history |-> generateHistoricalData(newData, st.history),
         appended |-> Append(st.appended, historyPoint(newData)),
         appendedNodes |-> Append(st.appendedNodes, nodeId),
         readings |-> Append(st.readings, newData),
         raised |-> Append(st.raised, alerting)]

\* One pass of the forEach of the polling callback over the state st it
\* has built so far; sel is the selectedNode its closure holds.
pollUpdate(st, sel, nodeId, sensors, timestamp) ==
    LET newData == generateMockNodeData(nodeId, sensors, timestamp)
        alerting == newData.isAnomaly /\ nodeId \notin st.previous
        previous1 == IF alerting THEN st.previous \cup {nodeId} ELSE st.previous
        isSelected == sel # Null /\ sel.nodeId = nodeId
    IN  [map |-> [st.map EXCEPT ![nodeId] = newData],
         entries |-> Append(st.entries, generateActivityLog(newData)),
         alert |-> IF alerting THEN newData ELSE st.alert,
         timers |-> IF alerting THEN Append(st.timers, timestamp) ELSE st.timers,
         previous |-> IF ~newData.isAnomaly THEN previous1 \ {nodeId} ELSE previous1,
         selected |-> IF isSelected THEN newData ELSE st.selected,
         history |-> IF isSelected THEN generateHistoricalData(newData, st.history)
                     ELSE st.history,
         appended |-> IF isSelected THEN Append(st.appended, historyPoint(newData))
                      ELSE st.appended,
         appendedNodes |-> IF isSelected THEN Append(st.appendedNodes, nodeId)
                           ELSE st.appendedNodes,
         readings |-> Append(st.readings, newData),
         raised |-> Append(st.raised, alerting)]

\* effect 3: the setInterval callback, every 3 s; draws are the pairs of
\* node indices it can draw, pool the pairs of readings
TickWith(limit, draws, pool) ==
    /\ loaded
    /\ now <= limit
    /\ \E d \in draws, s \in pool :
          LET st0 == [map |-> nodeDataMap, entries |-> <<>>, alert |-> anomalyAlert,
                      timers |-> timers, previous |-> previousAnomalies,
                      selected |-> selectedNode, history |-> historicalData,
                      appended |-> appended, appendedNodes |-> appendedNodes,
                      readings |-> <<>>, raised |-> <<>>]
          IN  \E st1 \in {pollUpdate(st0, selectedNode, sensorNodes[d[1]], s[1], now)} :
              \E st2 \in {pollUpdate(st1, selectedNode, sensorNodes[d[2]], s[2], now)} :
              /\ nodeDataMap' = st2.map
              /\ activityLog' = First(Reverse(st2.entries) \o activityLog, ActivityCap)
              /\ anomalyAlert' = st2.alert
              /\ timers' = st2.timers
              /\ previousAnomalies' = st2.previous
              /\ selectedNode' = st2.selected
              /\ historicalData' = st2.history
              /\ created' = Reverse(st2.entries) \o created
              /\ appended' = st2.appended
              /\ appendedNodes' = st2.appendedNodes
              /\ lastEvent' = [kind |-> "tick", readings |-> st2.readings,
                               raised |-> st2.raised]
    /\ now' = now + 1
    /\ UNCHANGED <<loaded, scoreVars, mlVars, fcVars, tierVars>>

\* effect 4: the keydown handler, key 'c' with a node selected
CrisisWith(limit) ==
    /\ selectedNode # Null
    /\ now <= limit
    /\ LET crisisData == crisisDataOf(selectedNode, now)
       IN  /\ nodeDataMap' = [nodeDataMap EXCEPT ![crisisData.nodeId] = crisisData]
           /\ selectedNode' = crisisData
           /\ anomalyAlert' = crisisData
           /\ previousAnomalies' = previousAnomalies \cup {crisisData.nodeId}
           /\ timers' = Append(timers, now)
           /\ activityLog' = First(<<generateActivityLog(crisisData)>> \o activityLog,
                                   ActivityCap)
           /\ created' = <<generateActivityLog(crisisData)>> \o created
           /\ lastEvent' = [kind |-> "crisis", readings |-> <<crisisData>>]
    /\ now' = now + 1
    /\ UNCHANGED <<loaded, historicalData, appended, appendedNodes, scoreVars,
                   mlVars, fcVars, tierVars>>

\* handleNodeSelect: a click on one of nodes on the map
SelectWith(limit, nodes) ==
    /\ loaded
    /\ now <= limit
    /\ \E nodeId \in nodes :
          /\ selectedNode' = nodeDataMap[nodeId]
          /\ historicalData' = generateHistoricalData(nodeDataMap[nodeId], <<>>)
          /\ appended' = <<historyPoint(nodeDataMap[nodeId])>>
          /\ appendedNodes' = <<nodeId>>
    /\ now' = now + 1
    /\ lastEvent' = [kind |-> "select", readings |-> <<>>]
    /\ UNCHANGED <<loaded, nodeDataMap, activityLog, anomalyAlert,
                   previousAnomalies, timers, created, scoreVars, mlVars,
                   fcVars, tierVars>>

AllDraws == (1..PolledCount) \X (1..PolledCount)

InitialLoad == LoadWith(MockSensors) /\ UNCHANGED varied

PollTick == TickWith(MaxEvents, AllDraws, MockSensors \X MockSensors) /\ UNCHANGED varied

CrisisTrigger == CrisisWith(MaxEvents) /\ UNCHANGED varied

\* the 4 s timeout of a triggerAnomalyEffects call: setAnomalyAlert(null)
TimeoutWith(limit) ==
    /\ timers # <<>>
    /\ now <= limit
    /\ anomalyAlert' = Null
    /\ timers' = Tail(timers)
    /\ now' = now + 1
    /\ lastEvent' = [kind |-> "timeout", readings |-> <<>>]
    /\ UNCHANGED <<loaded, nodeDataMap, selectedNode, activityLog, historicalData,
                   previousAnomalies, created, appended, appendedNodes, scoreVars,
                   mlVars, fcVars, tierVars>>

AlertTimeout == TimeoutWith(MaxEvents) /\ UNCHANGED varied

NodeSelect == SelectWith(MaxEvents, PolledNodes) /\ UNCHANGED varied

Next == \/ InitialLoad \/ PollTick \/ CrisisTrigger \/ AlertTimeout \/ NodeSelect

Spec == InitDash /\ [][Next]_vars

---------------------------------------------------------------------------
(* The dashboard left running: the steady tick redraws the first node      *)
(* twice; a few other events (a tick that draws another node, the crisis   *)
(* key, a click) happen in between.                                        *)

SteadySensors == {Sensors(450, 200, 40, 2)}
SteadyPairs == {<<Sensors(450, 200, 40, 2), Sensors(500, 220, 50, 5)>>}
SteadyDraws == {<<1, 1>>}
OtherDraws == {<<1, PolledCount>>, <<PolledCount, PolledCount>>} \ SteadyDraws
ClickedNodes == {sensorNodes[1], sensorNodes[PolledCount]}

LongLoad == LoadWith(SteadySensors) /\ UNCHANGED varied

SteadyTick == TickWith(MaxLongEvents, SteadyDraws, SteadyPairs) /\ UNCHANGED varied

OtherTick == /\ varied < MaxVaried
             /\ TickWith(MaxLongEvents, OtherDraws, SteadyPairs)
             /\ varied' = varied + 1

LongCrisis == /\ varied < MaxVaried
              /\ CrisisWith(MaxLongEvents)
              /\ varied' = varied + 1

LongSelect == /\ varied < MaxVaried
              /\ SelectWith(MaxLongEvents, ClickedNodes)
              /\ varied' = varied + 1

NextLong == \/ LongLoad \/ SteadyTick \/ OtherTick \/ LongCrisis \/ LongSelect

SpecLong == InitDash /\ [][NextLong]_vars

---------------------------------------------------------------------------
(* The alert banner: ticks, crisis keys and the 4 s timers of the alerts,  *)
(* three events deep.  A timer set earlier expires earlier (all run 4 s),  *)
(* so the pending timers expire in the order they were set.                *)

AlertLoad == LoadWith(MockSensors) /\ UNCHANGED varied

AlertTick == TickWith(MaxAlertEvents, AllDraws, MockSensors \X MockSensors)
             /\ UNCHANGED varied

AlertCrisis == CrisisWith(MaxAlertEvents) /\ UNCHANGED varied

AlertExpiry == TimeoutWith(MaxAlertEvents) /\ UNCHANGED varied

NextAlert == \/ AlertLoad \/ AlertTick \/ AlertCrisis \/ AlertExpiry

SpecAlert == InitDash /\ [][NextAlert]_vars

---------------------------------------------------------------------------
(* One reading shown by the dashboard: every tier derived from its score *)

StressValues == {Num(v) : v \in 0..100}

InitTier == /\ tierIn \in StressValues /\ tierOut = Pending
            /\ ScoreIdle /\ MLIdle /\ FcIdle /\ DashIdle

\* the reading is logged, drawn on the map and shown in the panel
ShowReading ==
    /\ tierOut = Pending
    /\ LET node == [nodeId |-> sensorNodes[1], stressIndex |-> tierIn,
                    isAnomaly |-> isAnomalyOf(tierIn), timestamp |-> 0]
       IN  tierOut' = [label |-> getStressLabel(node.stressIndex),
                       gaugeColor |-> getStressColor(node.stressIndex),
                       markerColor |-> getNodeColor(node),
                       eventType |-> generateActivityLog(node).eventType,
                       isAnomaly |-> node.isAnomaly]
    /\ UNCHANGED <<tierIn, scoreVars, mlVars, fcVars, dashVars>>

NextTier == ShowReading

SpecTier == InitTier /\ [][NextTier]_vars

---------------------------------------------------------------------------
(* Properties of the scoring function *)

ValidSensorInputs == {s \in SensorInputs : ~Malformed(s)}

InRange0to100(x) == ~IsNaN(x) /\ Val(x) \in 0..100

ValidReadingsScoreInRange ==
    \A s \in ValidSensorInputs : InRange0to100(calculateStressIndex(s))

\* C1: calculateStressIndex returns an integer in 0..100 for every reading
\* with four numbers, and after the initial load and any poll ticks and
\* crisis triggers every node of the node map has stressIndex in 0..100.
C1_StressIndexInRange ==
    /\ ValidReadingsScoreInRange
    /\ \A n \in DOMAIN nodeDataMap : InRange0to100(nodeDataMap[n].stressIndex)

\* a poll tick has written a scored reading and a crisis trigger its 94
C1_Witness ==
    /\ loaded
    /\ \E a, b \in DOMAIN nodeDataMap :
          /\ nodeDataMap[a].stressIndex = Num(CrisisStress)
          /\ nodeDataMap[b].timestamp >= 1
          /\ nodeDataMap[b].stressIndex = calculateStressIndex(nodeDataMap[b].sensors)
          /\ nodeDataMap[b].stressIndex = Num(87)

\* the scoring function as the specification words it: every sub-score is
\* clamped into 0..100 before the weighted sum
clamp0to100(x30) == IF x30 > 3000 THEN 3000 ELSE IF x30 < 0 THEN 0 ELSE x30

referenceStressIndex(sensors) ==
    LET n == clamp0to100(5 * (Val(sensors.noise) - 400))
        t == clamp0to100(12 * (Val(sensors.temp) - 150))
        a == clamp0to100(20 * Val(sensors.airQuality))
        d == clamp0to100(100 * Val(sensors.crowd))
        r == MathRound(40 * n + 25 * t + 20 * a + 15 * d, 3000)
    IN  Num(IF r < 0 THEN 0 ELSE r)

\* C2: for every reading with four numbers, calculateStressIndex returns
\* what the reference scoring function (sub-scores clamped into 0..100,
\* weighted, rounded, floored at 0) returns.
C2_MatchesReference ==
    (scoreOut # NoOutcome /\ ~Malformed(scoreIn))
        => scoreOut = [kind |-> "return", value |-> referenceStressIndex(scoreIn)]

\* C10: scoring a reading with a missing or NaN field ends in an
\* InvalidInput error, never in a returned value.
C10_MalformedFailsInvalidInput ==
    (scoreOut # NoOutcome /\ Malformed(scoreIn))
        => scoreOut = [kind |-> "throw", error |-> "InvalidInput"]

---------------------------------------------------------------------------
(* Properties of the local anomaly classifier *)

\* the request is a finished detectAnomaly that took the local fallback
FallbackDetectDone ==
    /\ mlPc = "done"
    /\ mlReq.op = "detectAnomaly"
    /\ mlResp \in {"rejected", "ok_bad_json"}

noiseFired == Val(mlReq.reading.noise) > 850
heatFired == Val(mlReq.reading.temperature) > 350
airFired == Val(mlReq.reading.air_quality) > 120
crowdFired == Val(mlReq.reading.crowd_density) > 25
anyFired == noiseFired \/ heatFired \/ airFired \/ crowdFired
stressAbove80 == mlReq.reading.stress_index # NaN /\ Val(mlReq.reading.stress_index) > 80
stressUpTo80 == mlReq.reading.stress_index # NaN /\ Val(mlReq.reading.stress_index) <= 80

resultSignals == IF "signals" \in DOMAIN mlResult THEN SeqRange(mlResult.signals) ELSE {}

\* C3: in a result classified anomalous, each sensor tag is present
\* exactly when its own threshold is exceeded.
C3_TagsFollowThresholds ==
    (FallbackDetectDone /\ mlResult.is_anomaly) =>
        /\ "signals" \in DOMAIN mlResult
        /\ ("noise" \in resultSignals) = noiseFired
        /\ ("heat" \in resultSignals) = heatFired
        /\ ("air_quality" \in resultSignals) = airFired
        /\ ("crowd" \in resultSignals) = crowdFired

C3_Witness ==
    /\ FallbackDetectDone /\ mlResult.is_anomaly
    /\ resultSignals = {"heat", "crowd"}
    /\ stressUpTo80

\* C4: is_anomaly is true exactly when stress_index > 80 or a threshold fired.
C4_IsAnomalyIff ==
    FallbackDetectDone => (mlResult.is_anomaly = (stressAbove80 \/ anyFired))

C4_Witness ==
    /\ FallbackDetectDone /\ mlResult.is_anomaly
    /\ ~stressAbove80 /\ airFired /\ ~noiseFired /\ ~heatFired /\ ~crowdFired

\* C5: "composite" is in the signals exactly when stress_index > 80 and no
\* individual threshold fired; then signals is just composite and the
\* explanation is the multi-sensor correlation message.
C5_CompositeOnlyWithoutThreshold ==
    FallbackDetectDone =>
        /\ ("composite" \in resultSignals) = (stressAbove80 /\ ~anyFired)
        /\ ("composite" \in resultSignals) =>
              /\ mlResult.signals = <<"composite">>
              /\ mlResult.explanation = [text |-> CompositeText]

NominalText == "Sensing parameters nominal. No immediate infrastructure intervention required."

C7_ExplanationPriority ==
    (FallbackDetectDone /\ (anyFired \/ stressAbove80)) =>
        /\ noiseFired => mlResult.explanation = Template(NoiseText, mlReq.reading.noise)
        /\ (~noiseFired /\ heatFired) =>
              mlResult.explanation = Template(HeatText, mlReq.reading.temperature)
        /\ (~noiseFired /\ ~heatFired /\ airFired) =>
              mlResult.explanation = Template(AqiText, mlReq.reading.air_quality)
        /\ (~noiseFired /\ ~heatFired /\ ~airFired /\ stressAbove80) =>
              mlResult.explanation = [text |-> CompositeText]

C7_Witness ==
    /\ FallbackDetectDone
    /\ noiseFired /\ heatFired /\ airFired /\ crowdFired
    /\ mlResult.explanation = Template(NoiseText, Num(900))

---------------------------------------------------------------------------
(* Properties of the ML client *)

isLocalForecast(result, req) ==
    \E t0 \in StartTimes, rnds \in [1..Len(KnownNodes) -> ClientDraws] :
        result = fallbackForecast(req.nodeId, req.horizon, t0, rnds)

\* C8: a request whose fetch failed, by rejection or by a response that is
\* not ok, resolves with the local fallback's result for its arguments,
\* after a single fetch.
C8_FailureFallsBack ==
    (mlPc = "done" /\ mlResp \in {"rejected", "not_ok"}) =>
        /\ mlFetches = 1
        /\ mlReq.op = "detectAnomaly" =>
              mlResult = fallbackAnomalyDetection(mlReq.reading)
        /\ mlReq.op = "getForecast" => isLocalForecast(mlResult, mlReq)

\* C9: every request that has issued its fetch eventually completes.
C9_EveryRequestCompletes == (mlPc = "awaiting") ~> (mlPc = "done")


---------------------------------------------------------------------------
(* Properties of the local forecast generator *)

ForecastDone == fcOut # Pending

\* the series of the returned value, each with the draws it was made from
ReturnedSeries ==
    IF fcIn.nodeId = "" THEN fcOut.array ELSE <<fcOut>>

\* C11: for every horizon h >= 0 each series has floor(h / 15) + 1 points
\* with minutes_ahead 0, 15, 30, ... up to the largest multiple of 15 not
\* above h; a call with a nodeId returns the one series of that node, a
\* call without one returns a series for each of the five known nodes.
C11_SeriesShape ==
    ForecastDone =>
        /\ fcIn.nodeId # "" =>
              /\ "array" \notin DOMAIN fcOut
              /\ fcOut.node_id = fcIn.nodeId
        /\ fcIn.nodeId = "" =>
              /\ DOMAIN fcOut = {"array"}
              /\ Len(fcOut.array) = 5
              /\ \A n \in 1..5 : fcOut.array[n].node_id = KnownNodes[n]
        /\ \A n \in 1..Len(ReturnedSeries) :
              LET forecast == ReturnedSeries[n].forecast
              IN  /\ Len(forecast) = (fcIn.horizon \div 15) + 1
                  /\ \A k \in 1..Len(forecast) :
                        forecast[k].minutes_ahead = 15 * (k - 1)
                  /\ forecast[Len(forecast)].minutes_ahead <= fcIn.horizon
                  /\ forecast[Len(forecast)].minutes_ahead + 15 > fcIn.horizon

\* a 60 minute forecast of all nodes: five series of five points
C11_Witness ==
    /\ ForecastDone /\ fcIn.nodeId = "" /\ fcIn.horizon = 60
    /\ Len(fcOut.array) = 5
    /\ \A n \in 1..5 : Len(fcOut.array[n].forecast) = 5

\* the draws the n-th returned series was made from
DrawsOf(n) == fcIn.rnds[n]

clamp20to85(v) == IF v < 20 THEN 20 ELSE IF v > 85 THEN 85 ELSE v

\* the stress of step k of a series whose previous stress was prev100
SteppedFrom(prev100, k, rnd) ==
    clamp20to85(nextStress(prev100, hourAt(fcIn.t0, 15 * (k - 1)), rnd.pert[k - 1]))

\* C12: every point of every series has predicted_stress in 20..85, and
\* each point's stress is the step from the previous point's clamped
\* predicted_stress (from the seed for the first point): the clamped value
\* is the one carried forward.
C12_ClampedCarriedForward ==
    ForecastDone =>
        \A n \in 1..Len(ReturnedSeries) :
            LET forecast == ReturnedSeries[n].forecast
            IN  \A k \in 1..Len(forecast) :
                   /\ forecast[k].predicted_stress \in 20..85
                   /\ forecast[k].predicted_stress =
                         SteppedFrom(IF k = 1 THEN DrawsOf(n).seed
                                     ELSE 100 * forecast[k - 1].predicted_stress,
                                     k, DrawsOf(n))

\* the extreme draws: the highest seed and perturbation through the evening
\* rush, seven points long
C12_Witness ==
    /\ ForecastDone /\ fcIn.nodeId = "node_1" /\ fcIn.horizon = 90
    /\ fcIn.t0 = 16 * 60 + 40
    /\ DrawsOf(1).seed = 6499
    /\ \A k \in 0..6 : DrawsOf(1).pert[k] = 2499
    /\ \A k \in 1..7 : fcOut.forecast[k].predicted_stress \in 60..85

\* C13: within every series confidence is max(0.65, 0.9 - 0.003 *
\* minutes_ahead) (in thousandths: max(650, 900 - 3 * minutes_ahead)), lies
\* in [0.65, 0.9], and never increases from one point to the next.
C13_ConfidenceDecays ==
    ForecastDone =>
        \A n \in 1..Len(ReturnedSeries) :
            LET forecast == ReturnedSeries[n].forecast
            IN  \A k \in 1..Len(forecast) :
                   LET decayed == 900 - 3 * forecast[k].minutes_ahead
                   IN  /\ forecast[k].confidence =
                             (IF decayed > 650 THEN decayed ELSE 650)
                       /\ forecast[k].confidence \in 650..900
                       /\ k > 1 => forecast[k].confidence <= forecast[k - 1].confidence

\* a series long enough for the floor to hold the confidence up: 0.9 at
\* the first point, 0.675 at 75 minutes, 0.65 (not 0.63) at 90 minutes
C13_Witness ==
    /\ ForecastDone /\ fcIn.nodeId = "node_9" /\ fcIn.horizon >= 90
    /\ fcOut.forecast[1].confidence = 900
    /\ fcOut.forecast[6].confidence = 675
    /\ fcOut.forecast[7].minutes_ahead = 90
    /\ fcOut.forecast[7].confidence = 650

\* last predicted stress minus first predicted stress of a series
Rise(series) ==
    series.forecast[Len(series.forecast)].predicted_stress
        - series.forecast[1].predicted_stress

\* C14: the trend of a series is "increasing" exactly when the last point's
\* predicted stress exceeds the first's by more than 8, "decreasing" exactly
\* when the first exceeds the last by more than 8, and "stable" in every
\* other case (a difference of exactly 8, a single point); never two at once.
C14_TrendByDifference ==
    ForecastDone =>
        \A n \in 1..Len(ReturnedSeries) :
            LET series == ReturnedSeries[n]
            IN  /\ series.trend \in {"increasing", "decreasing", "stable"}
                /\ series.trend = "increasing" <=> Rise(series) > 8
                /\ series.trend = "decreasing" <=> Rise(series) < -8
                /\ series.trend = "stable" <=> (Rise(series) \in -8..8)
                /\ Len(series.forecast) = 1 => series.trend = "stable"

\* a series that rises by exactly 8 and is reported stable
C14_Witness ==
    /\ ForecastDone /\ fcIn.nodeId = "node_1"
    /\ Len(fcOut.forecast) > 1
    /\ Rise(fcOut) = 8
    /\ fcOut.trend = "stable"

---------------------------------------------------------------------------
(* Properties of the dashboard's histories *)

\* C15: after n appends through generateHistoricalData to a history that
\* started empty, the history has min(n, 20) points, and they are the last
\* min(n, 20) appended points in the order they were appended; an append at
\* capacity succeeds (the newest point is always the last of the history).
C15_HistoryKeepsLastTwenty ==
    LET n == Len(appended)
        m == IF n < 20 THEN n ELSE 20
    IN  /\ Len(historicalData) = m
        /\ \A j \in 1..m : historicalData[j] = appended[n - m + j]
        /\ n > 0 => historicalData[m] = appended[n]

\* more than 20 appends: the history is full, the first appended point is
\* gone and the point appended at capacity is the last of the history
C15_Witness ==
    /\ Len(appended) > 20
    /\ Len(historicalData) = 20
    /\ \A j \in 1..20 : historicalData[j] # appended[1]
    /\ historicalData[20] = appended[Len(appended)]
    /\ historicalData[20].timestamp > historicalData[1].timestamp

\* the log entry of a reading, field by field
EntryOfReading(entry, reading) ==
    /\ entry.nodeId = reading.nodeId
    /\ entry.timestamp = reading.timestamp
    /\ entry.value = reading.stressIndex

\* no entry of log is older than the entry after it (hence, >= being
\* transitive, than any entry after it)
NewestFirst(log) ==
    \A i \in 1..(Len(log) - 1) : log[i].timestamp >= log[i + 1].timestamp

\* the log holds at most 50 entries, each created no earlier than the
\* entries after it, and they are the newest of all the entries created
LogCappedNewestFirst ==
    /\ Len(activityLog) <= 50
    /\ NewestFirst(activityLog)
    /\ Len(activityLog) = (IF Len(created) < 50 THEN Len(created) ELSE 50)
    /\ \A i \in 1..Len(activityLog) : activityLog[i] = created[i]
    /\ NewestFirst(created)

\* a handler adds one entry per reading it generated, the later reading
\* nearer the head
OneEntryPerReading ==
    LET readings == lastEvent'.readings
        k == Len(readings)
    IN  /\ Len(created') = Len(created) + k
        /\ \A i \in 1..k : EntryOfReading(created'[i], readings[k + 1 - i])
        /\ \A i \in 1..Len(created) : created'[k + i] = created[i]

\* C16: after any sequence of initial load, poll ticks and crisis triggers
\* the activity log holds at most 50 entries, newest first; one entry is
\* added per generated reading; past the cap the oldest entries are dropped.
C16_LogBoundedNewestFirst ==
    [](LogCappedNewestFirst) /\ [][OneEntryPerReading]_vars

\* more entries were created than the log holds: the log is full, its head
\* is the newest entry and the oldest entry created is gone
C16_Witness ==
    /\ Len(created) > 50
    /\ Len(activityLog) = 50
    /\ activityLog[1] = created[1]
    /\ activityLog[50].timestamp > created[Len(created)].timestamp

---------------------------------------------------------------------------
(* Properties of the severity tiers *)

Shown == tierOut # Pending

\* the tier a label and an eventType name
TierOfLabel(label) ==
    CASE label = "CRITICAL ANOMALY" -> "critical"
      [] label = "ELEVATED STRESS" -> "elevated"
      [] label = "NOMINAL PULSE" -> "nominal"

TierOfEventType(eventType) ==
    CASE eventType = "Critical" -> "critical"
      [] eventType = "Elevated" -> "elevated"
      [] eventType = "Normal" -> "nominal"

\* Critical from 75, Elevated from 50, Nominal below
Tier75_50(v) == IF v >= 75 THEN "critical" ELSE IF v >= 50 THEN "elevated" ELSE "nominal"

\* C17: the NodeIntelligence label and the ActivityEntry eventType of a
\* reading are both Critical when stressIndex >= 75, Elevated when
\* 50 <= stressIndex < 75 and Nominal/Normal otherwise, so they always name
\* the same tier.
C17_LabelAndEventTypeAgree ==
    Shown =>
        /\ TierOfLabel(tierOut.label) = Tier75_50(Val(tierIn))
        /\ TierOfEventType(tierOut.eventType) = Tier75_50(Val(tierIn))
        /\ TierOfLabel(tierOut.label) = TierOfEventType(tierOut.eventType)

\* the ranges of the README: Nominal 0-54, Elevated 55-79, Critical 80-100
TierOfReadme(v) == IF v >= 80 THEN "critical" ELSE IF v >= 55 THEN "elevated" ELSE "nominal"

\* cyan, amber and red
TierOfColor(color) ==
    CASE color = "#FF3B3B" -> "critical"
      [] color = "#FFB800" -> "elevated"
      [] color = "#00F5FF" -> "nominal"

\* C18: for every integer score 0..100 the map marker colour, the
\* activity-log eventType and the anomaly flag follow the README ranges:
\* Nominal (cyan) for 0-54, Elevated (amber) for 55-79, Critical (red, with
\* the alert) for 80-100, the boundary scores 55 and 80 included.
C18_PulseTierFollowsReadme ==
    Shown =>
        /\ TierOfColor(tierOut.markerColor) = TierOfReadme(Val(tierIn))
        /\ TierOfEventType(tierOut.eventType) = TierOfReadme(Val(tierIn))
        /\ tierOut.isAnomaly <=> (TierOfReadme(Val(tierIn)) = "critical")

---------------------------------------------------------------------------
(* Anomalies reported by the local classifier *)

\* C19: every result of fallbackAnomalyDetection with is_anomaly = true
\* carries a non-empty explanation string, whichever thresholds fired and
\* whatever the stress index.
C19_AnomalyIsExplained ==
    (FallbackDetectDone /\ mlResult.is_anomaly) =>
        /\ "explanation" \in DOMAIN mlResult
        /\ mlResult.explanation.text # ""

---------------------------------------------------------------------------
(* Anomaly alerts of the polling loop *)

\* every node of the already-alerted set has an anomalous latest reading
AlertedAreAnomalous ==
    \A n \in previousAnomalies :
        /\ n \in DOMAIN nodeDataMap
        /\ nodeDataMap[n].isAnomaly
        /\ Val(nodeDataMap[n].stressIndex) > 80

\* the already-alerted set after a reading: its node is in it exactly when
\* the reading is anomalous
AlertedAfter(alerted, reading) ==
    IF Val(reading.stressIndex) > 80 THEN alerted \cup {reading.nodeId}
    ELSE alerted \ {reading.nodeId}

RaisedCount(raised) == Cardinality({k \in 1..Len(raised) : raised[k]})

\* a tick raises an alert for a reading exactly when the reading is
\* anomalous and its node is not in the already-alerted set at that point
TickAlertsOnlyNewAnomalies ==
    lastEvent'.kind = "tick" =>
        LET readings == lastEvent'.readings
            raised == lastEvent'.raised
            alerted1 == AlertedAfter(previousAnomalies, readings[1])
        IN  /\ raised[1] <=> (/\ Val(readings[1].stressIndex) > 80
                              /\ readings[1].nodeId \notin previousAnomalies)
            /\ raised[2] <=> (/\ Val(readings[2].stressIndex) > 80
                              /\ readings[2].nodeId \notin alerted1)
            /\ previousAnomalies' = AlertedAfter(alerted1, readings[2])
            /\ Len(timers') = Len(timers) + RaisedCount(raised)
            /\ RaisedCount(raised) > 0 => anomalyAlert' # Null

\* C20: the polling loop raises an alert for a node only when its new
\* reading is anomalous (stressIndex > 80) and the node is not in the
\* already-alerted set; while its readings stay anomalous no second alert
\* is raised, until a non-anomalous reading has removed it from the set;
\* the set only ever contains nodes whose latest reading is anomalous.
C20_AlertOncePerAnomaly ==
    [](AlertedAreAnomalous) /\ [][TickAlertsOnlyNewAnomalies]_vars

\* a tick after an alert: the node was alerted by an earlier event, its new
\* reading is anomalous again and no alert was raised for it
C20_Witness ==
    /\ lastEvent.kind = "tick"
    /\ ~lastEvent.raised[1] /\ ~lastEvent.raised[2]
    /\ lastEvent.readings[1].isAnomaly
    /\ lastEvent.readings[1].nodeId \in previousAnomalies
    /\ Len(timers) > 0

---------------------------------------------------------------------------
(* The alert banner and its timers *)

\* C21: the 4 s clear timer started for an earlier alert never dismisses an
\* alert that was raised later: when a timer expires, the alert it clears
\* (if one is shown) was raised no later than the timer was set.
C21_TimerClearsOnlyItsAlert ==
    [][(lastEvent'.kind = "timeout" /\ anomalyAlert # Null)
          => anomalyAlert.timestamp <= Head(timers)]_vars

---------------------------------------------------------------------------
(* The trend chart's history and the selected node *)

\* the history is what is left of the appended points, and every one of
\* them was generated for the node that is selected now
HistoryOfSelectedNode ==
    LET n == Len(appended)
        m == IF n < 20 THEN n ELSE 20
    IN  /\ Len(appendedNodes) = n
        /\ Len(historicalData) = m
        /\ \A j \in 1..m : historicalData[j] = appended[n - m + j]
        /\ n > 0 => selectedNode # Null
        /\ \A j \in 1..n : appendedNodes[j] = selectedNode.nodeId

\* the readings of a tick that regenerated the selected node
ReadingsOfSelected(readings) ==
    {k \in 1..Len(readings) : readings[k].nodeId = selectedNode.nodeId}

\* a click resets the history to one point of the clicked node; a tick
\* appends one point per reading of the selected node and no other
HistoryStep ==
    /\ lastEvent'.kind = "select" =>
          /\ Len(historicalData') = 1
          /\ appendedNodes' = <<selectedNode'.nodeId>>
          /\ historicalData'[1].timestamp = selectedNode'.timestamp
          /\ historicalData'[1].stressIndex = selectedNode'.stressIndex
    /\ lastEvent'.kind = "tick" =>
          /\ selectedNode'.nodeId = selectedNode.nodeId
          /\ Len(appended') =
                Len(appended) + Cardinality(ReadingsOfSelected(lastEvent'.readings))
          /\ \A j \in 1..Len(appended) : appended'[j] = appended[j]

\* C22: under any interleaving of poll ticks, node clicks and crisis
\* triggers the history shown in the trend chart holds only points
\* generated for the currently selected node; selecting a node resets it to
\* a single point of that node, and a tick appends a point only when the
\* regenerated node is the selected one.
C22_HistoryOfSelectedOnly ==
    [](HistoryOfSelectedNode) /\ [][HistoryStep]_vars

\* after a click on the second node a tick regenerated the first and the
\* second node: the history holds the clicked point and the second node's
\* new point, and nothing of the first node
C22_Witness ==
    /\ lastEvent.kind = "tick"
    /\ lastEvent.readings[1].nodeId = sensorNodes[1]
    /\ lastEvent.readings[2].nodeId = sensorNodes[2]
    /\ selectedNode.nodeId = sensorNodes[2]
    /\ Len(historicalData) = 2
    /\ appendedNodes = <<sensorNodes[2], sensorNodes[2]>>
    /\ historicalData[2].timestamp > historicalData[1].timestamp

=============================================================================
